---- MODULE Spec2Model ----
(***************************************************************************)
(* RTA Break Tracker (src/app.py, src/config.py): the BreakRecord and      *)
(* Shift tables, the handlers that write them, and the metrics engine      *)
(* calculate_agent_metrics that reads them.                                *)
(*                                                                         *)
(* Time.  A datetime is a number of seconds since 00:00:00 of day 0, a     *)
(* date is a day number, a time of day is a number of seconds since        *)
(* midnight.  Microseconds are dropped.                                    *)
(*                                                                         *)
(* Numbers.  Python floats are modelled by exact rationals <<n, d>>, d > 0,*)
(* and round(x, k) by round-half-to-even on the exact value.  A percentage *)
(* of the result is held in tenths (938 is 93.8), total_scheduled_hours in *)
(* hundredths.                                                             *)
(*                                                                         *)
(* Tables.  A table is the sequence of its rows in primary-key order, and  *)
(* a query without ORDER BY returns its rows in that order.                *)
(*                                                                         *)
(* Responses.  response is the body of the last answer of a report route   *)
(* (GET /api/report/metrics, GET /api/report/export), None before the      *)
(* first.                                                                  *)
(*                                                                         *)
(* Requests in flight.  pending holds the requests to POST                 *)
(* /api/break/start that have passed their checks (lines 853-994) and have *)
(* not yet committed their record (lines 996-997).  The handler start_break*)
(* is the two steps of one request with no other request in between.       *)
(***************************************************************************)
EXTENDS Integers, Sequences, FiniteSets

VARIABLES break_records, shift_records, now, response, pending

vars == <<break_records, shift_records, now, response, pending>>

----------------------------------------------------------------------------
(* Bounds of the model *)

MaxBreaks == 2

MaxShifts == 2

MaxTicks == 1

(* The records of the break table where agents punch over several days *)
MaxRecords == 4

(* The requests to POST /api/break/start in flight at once *)
MaxPending == 2

----------------------------------------------------------------------------
(* Time *)

Minute == 60

Hour == 60 * Minute

Day == 24 * Hour

HM(h, m) == h * Hour + m * Minute

date(dt) == dt \div Day

time(dt) == dt % Day

combine(d, t) == d * Day + t

(* A nullable column: None, or Some(v) with value v[1] *)
None == <<>>

Some(v) == <<v>>

----------------------------------------------------------------------------
(* Arithmetic *)

Abs(x) == IF x < 0 THEN 0 - x ELSE x

Max(a, b) == IF a >= b THEN a ELSE b

Min(a, b) == IF a <= b THEN a ELSE b

(* int(x / y) of Python for y > 0: truncation toward zero *)
TruncDiv(x, y) == IF x >= 0 THEN x \div y ELSE 0 - ((0 - x) \div y)

RECURSIVE GCD(_, _)
GCD(a, b) == IF b = 0 THEN a ELSE GCD(b, a % b)

Rat(n, d) == LET g == GCD(Abs(n), d) IN <<n \div g, d \div g>>

RatAdd(x, y) == Rat(x[1] * y[2] + y[1] * x[2], x[2] * y[2])

RatSub(x, y) == Rat(x[1] * y[2] - y[1] * x[2], x[2] * y[2])

RatMul(x, y) == Rat(x[1] * y[1], x[2] * y[2])

(* x / y for y > 0 *)
RatDiv(x, y) == Rat(x[1] * y[2], x[2] * y[1])

RatOf(n) == <<n, 1>>

RatLE(x, y) == x[1] * y[2] <= y[1] * x[2]

RatMax(x, y) == IF RatLE(y, x) THEN x ELSE y

RatMin(x, y) == IF RatLE(x, y) THEN x ELSE y

(* round-half-to-even of n / d, d > 0 *)
RoundHalfEven(n, d) ==
  LET q == n \div d
      r == n % d
  IN  IF 2 * r < d THEN q
      ELSE IF 2 * r > d THEN q + 1
      ELSE IF q % 2 = 0 THEN q ELSE q + 1

(* round(x, 1), in tenths *)
Round1(x) == RoundHalfEven(10 * x[1], x[2])

(* round(x, 2), in hundredths *)
Round2(x) == RoundHalfEven(100 * x[1], x[2])

RECURSIVE SumSeq(_)
SumSeq(s) == IF s = <<>> THEN 0 ELSE Head(s) + SumSeq(Tail(s))

RECURSIVE RatSum(_)
RatSum(s) == IF s = <<>> THEN <<0, 1>> ELSE RatAdd(Head(s), RatSum(Tail(s)))

(* A list without its i-th element *)
Without(s, i) == [j \in 1..(Len(s) - 1) |-> IF j < i THEN s[j] ELSE s[j + 1]]

----------------------------------------------------------------------------
(* Configuration *)

BREAK_DURATIONS ==
  [ short |-> 15, lunch |-> 30, meeting |-> 60, huddle |-> 15, emergency |-> 15,
    coaching_aya |-> 30, coaching_mostafa |-> 30, punch_in |-> 0, punch_out |-> 0,
    overtime |-> 0, compensation |-> 0, meeting_team_leader |-> 60 ]

WORKING_TIME_BREAKS ==
  {"coaching_aya", "coaching_mostafa", "meeting_team_leader", "overtime"}

ATTENDANCE == {"punch_in", "punch_out"}

(* The ids of the users with role agent where one agent is registered;
   ReportAgents below is the registry with a second agent *)
Agents == {1}

----------------------------------------------------------------------------
(* Models *)

(* Shift.get_duration_hours, as a rational number of hours *)
get_duration_hours(s) ==
  Rat(combine(s.end_date, s.end_time) - combine(s.start_date, s.start_time), Hour)

get_allowed_duration(b) == BREAK_DURATIONS[b.break_type]

is_working_time_break(b) == b.break_type \in WORKING_TIME_BREAKS

get_effective_overdue_status(b) ==
  IF is_working_time_break(b) THEN FALSE ELSE b.is_overdue

(* `b.duration_minutes or 0' *)
duration_or_0(b) ==
  IF b.duration_minutes = None THEN 0 ELSE b.duration_minutes[1]

----------------------------------------------------------------------------
(* calculate_agent_metrics *)

(* The BreakRecord query: the agent's records that start on a date of the range *)
query_breaks(agent_id, start_date, end_date) ==
  SelectSeq(break_records,
            LAMBDA b : /\ b.agent_id = agent_id
                       /\ date(b.start_time) >= start_date
                       /\ date(b.start_time) <= end_date)

(* The Shift query: the agent's shifts that start on a date of the range *)
query_shifts(agent_id, start_date, end_date) ==
  SelectSeq(shift_records,
            LAMBDA s : /\ s.agent_id = agent_id
                       /\ s.start_date >= start_date
                       /\ s.start_date <= end_date)

working_time_breaks(breaks) ==
  SelectSeq(breaks, LAMBDA b : b.break_type \in WORKING_TIME_BREAKS /\ b.end_time # None)

(* A variant of regular_breaks that keeps the records still active *)
regular_breaks_with_active(breaks) ==
  SelectSeq(breaks, LAMBDA b : b.break_type \notin (WORKING_TIME_BREAKS \cup ATTENDANCE))

regular_breaks(breaks) ==
  SelectSeq(breaks, LAMBDA b : /\ b.break_type \notin (WORKING_TIME_BREAKS \cup ATTENDANCE)
                               /\ b.end_time # None)

total_break_minutes(breaks) ==
  LET rb == regular_breaks(breaks)
  IN  SumSeq([i \in 1..Len(rb) |-> duration_or_0(rb[i])])

total_allowed_break_minutes(breaks) ==
  LET rb == regular_breaks(breaks)
  IN  SumSeq([i \in 1..Len(rb) |-> get_allowed_duration(rb[i])])

(* A variant of incidents that compares durations itself and forgets that
   working-time breaks are never overdue *)
incidents_by_duration(breaks) ==
  Len(SelectSeq(breaks, LAMBDA b : /\ b.break_type \notin ATTENDANCE
                                   /\ b.end_time # None
                                   /\ duration_or_0(b) > get_allowed_duration(b)))

incidents(breaks) ==
  Len(SelectSeq(regular_breaks(breaks), get_effective_overdue_status))

(* A variant of utilization with an allowance of 60 minutes per shift *)
utilization_allowance_60(n_shifts, break_minutes) ==
  IF n_shifts > 0
  THEN LET expected_working_minutes == n_shifts * 8 * 60
           excess_break_minutes == Max(0, break_minutes - n_shifts * 60)
       IN  RatMin(RatOf(100),
                  RatMax(RatOf(0),
                         RatMul(Rat(expected_working_minutes - excess_break_minutes,
                                    expected_working_minutes),
                                RatOf(100))))
  ELSE RatOf(0)

(* utilization before rounding, lines 1748-1759 *)
utilization(n_shifts, break_minutes) ==
  IF n_shifts > 0
  THEN LET expected_working_minutes == n_shifts * 8 * 60
           expected_break_minutes == n_shifts * 75
           excess_break_minutes == Max(0, break_minutes - expected_break_minutes)
           actual_working_time == expected_working_minutes - excess_break_minutes
       IN  RatMin(RatOf(100),
                  RatMax(RatOf(0),
                         RatMul(Rat(actual_working_time, expected_working_minutes),
                                RatOf(100))))
  ELSE RatOf(0)

(* A variant of break_adherence that takes one point off per minute over *)
break_adherence_linear(allowed_duration, actual_duration) ==
  IF actual_duration <= allowed_duration
  THEN RatOf(100)
  ELSE RatMax(RatOf(0), RatOf(100 - (actual_duration - allowed_duration)))

(* the score of one regular break, lines 1776-1780 *)
break_adherence(allowed_duration, actual_duration) ==
  IF actual_duration <= allowed_duration
  THEN RatOf(100)
  ELSE RatMul(Rat(allowed_duration, actual_duration), RatOf(100))

(* 1. break duration adherence, lines 1769-1781 *)
break_scores(breaks) ==
  LET scored == SelectSeq(regular_breaks(breaks),
                          LAMBDA b : /\ b.end_time # None
                                     /\ b.duration_minutes # None
                                     /\ get_allowed_duration(b) > 0)
  IN  [i \in 1..Len(scored) |->
         break_adherence(get_allowed_duration(scored[i]), scored[i].duration_minutes[1])]

(* A variant of punch_adherence whose penalty reaches 0 at 60 minutes *)
punch_adherence_over_60(time_diff_seconds) ==
  LET time_diff_minutes == Rat(Abs(time_diff_seconds), Minute)
  IN  IF RatLE(time_diff_minutes, RatOf(5))
      THEN RatOf(100)
      ELSE RatMax(RatOf(0),
                  RatMul(RatDiv(RatSub(RatOf(60), time_diff_minutes), RatOf(60)),
                         RatOf(100)))

(* the score of one punch, lines 1811-1819 and 1836-1843; the difference in seconds *)
punch_adherence(time_diff_seconds) ==
  LET time_diff_minutes == Rat(Abs(time_diff_seconds), Minute)
  IN  IF RatLE(time_diff_minutes, RatOf(5))
      THEN RatOf(100)
      ELSE RatMax(RatOf(0),
                  RatMul(RatDiv(RatSub(RatOf(30), time_diff_minutes), RatOf(30)),
                         RatOf(100)))

(* A variant of shift_dates with one entry per shift *)
shift_dates_per_shift(shifts) == [i \in 1..Len(shifts) |-> shifts[i].start_date]

(* The keys of shifts_by_date, in the dict's order: each start date where it first occurs *)
shift_dates(shifts) ==
  LET first == SelectSeq([i \in 1..Len(shifts) |-> i],
                         LAMBDA i : \A j \in 1..(i - 1) :
                                      shifts[j].start_date # shifts[i].start_date)
  IN  [k \in 1..Len(first) |-> shifts[first[k]].start_date]

(* shifts_by_date[d]: the last shift of the list that starts on d *)
shifts_by_date(shifts, d) ==
  LET on == SelectSeq(shifts, LAMBDA s : s.start_date = d)
  IN  on[Len(on)]

(* The records of punch_records_by_date[d] of one type, in the order of the query;
   the dict keeps the last *)
punches_on(breaks, d, break_type) ==
  SelectSeq(breaks, LAMBDA b : b.break_type = break_type /\ date(b.start_time) = d)

(* The two scores of one day with a shift, lines 1797-1847 *)
punch_scores_of_day(breaks, shifts, shift_start_date) ==
  LET shift == shifts_by_date(shifts, shift_start_date)
      ins == punches_on(breaks, shift_start_date, "punch_in")
      outs == punches_on(breaks, shift_start_date, "punch_out")
      punch_in == ins[Len(ins)]
      punch_out == outs[Len(outs)]
      punch_in_datetime == combine(shift_start_date, time(punch_in.start_time))
      shift_start_datetime == combine(shift.start_date, shift.start_time)
      punch_out_datetime == combine(date(punch_out.start_time), time(punch_out.start_time))
      shift_end_datetime == combine(shift.end_date, shift.end_time)
  IN  << IF ins # <<>>
         THEN punch_adherence(punch_in_datetime - shift_start_datetime)
         ELSE RatOf(0),
         IF outs # <<>>
         THEN punch_adherence(punch_out_datetime - shift_end_datetime)
         ELSE RatOf(0) >>

RECURSIVE punch_scores(_, _, _)
punch_scores(breaks, shifts, dates) ==
  IF dates = <<>> THEN <<>>
  ELSE punch_scores_of_day(breaks, shifts, Head(dates))
         \o punch_scores(breaks, shifts, Tail(dates))

adherence_scores(breaks, shifts) ==
  break_scores(breaks) \o punch_scores(breaks, shifts, shift_dates(shifts))

(* A variant of adherence that is 0 when there is nothing to score *)
adherence_default_0(scores) ==
  IF scores # <<>> THEN RatDiv(RatSum(scores), RatOf(Len(scores))) ELSE RatOf(0)

(* adherence before rounding, lines 1849-1853 *)
adherence(scores) ==
  IF scores # <<>> THEN RatDiv(RatSum(scores), RatOf(Len(scores))) ELSE RatOf(100)

compensation_minutes(breaks) ==
  LET cb == SelectSeq(breaks, LAMBDA b : b.break_type = "compensation" /\ b.end_time # None)
  IN  SumSeq([i \in 1..Len(cb) |-> duration_or_0(cb[i])])

(* conformance before rounding, lines 1859-1877 *)
conformance(n_shifts, break_minutes, compensation) ==
  IF n_shifts > 0
  THEN LET expected_working_minutes == n_shifts * 8 * 60
           expected_break_minutes == n_shifts * 75
           excess_break_minutes == Max(0, break_minutes - expected_break_minutes)
           actual_working_minutes ==
             expected_working_minutes - excess_break_minutes + compensation
       IN  RatMin(RatOf(100),
                  RatMul(Rat(actual_working_minutes, expected_working_minutes),
                         RatOf(100)))
  ELSE RatOf(0)

break_counts(breaks) ==
  LET counted == SelectSeq(breaks, LAMBDA b : b.break_type \notin ATTENDANCE)
  IN  [t \in {counted[i].break_type : i \in 1..Len(counted)} |->
         Len(SelectSeq(counted, LAMBDA b : b.break_type = t))]

(* The body of calculate_agent_metrics after its two queries *)
metrics_of(breaks, shifts) ==
  LET total_scheduled_minutes ==
        RatMul(RatSum([i \in 1..Len(shifts) |-> get_duration_hours(shifts[i])]), RatOf(60))
      overtime_breaks ==
        SelectSeq(breaks, LAMBDA b : b.break_type = "overtime" /\ b.end_time # None)
  IN  [ total_scheduled_hours |-> Round2(RatDiv(total_scheduled_minutes, RatOf(60))),
        total_break_minutes |-> total_break_minutes(breaks),
        total_allowed_break_minutes |-> total_allowed_break_minutes(breaks),
        exceeding_break_minutes |->
          Max(0, total_break_minutes(breaks) - total_allowed_break_minutes(breaks)),
        incidents |-> incidents(breaks),
        emergency_count |->
          Len(SelectSeq(breaks, LAMBDA b : b.break_type = "emergency")),
        overtime_count |-> Len(overtime_breaks),
        overtime_minutes |->
          SumSeq([i \in 1..Len(overtime_breaks) |-> duration_or_0(overtime_breaks[i])]),
        total_breaks |-> Len(breaks),
        completed_breaks |-> Len(regular_breaks(breaks)),
        utilization |-> Round1(utilization(Len(shifts), total_break_minutes(breaks))),
        adherence |-> Round1(adherence(adherence_scores(breaks, shifts))),
        conformance |->
          Round1(conformance(Len(shifts), total_break_minutes(breaks),
                             compensation_minutes(breaks))),
        break_counts |-> break_counts(breaks),
        shifts_count |-> Len(shifts) ]

calculate_agent_metrics(agent_id, start_date, end_date) ==
  metrics_of(query_breaks(agent_id, start_date, end_date),
             query_shifts(agent_id, start_date, end_date))

----------------------------------------------------------------------------
(* Rows *)

BreakRecord(agent_id, break_type, start_time, end_time, duration_minutes, is_overdue) ==
  [ agent_id |-> agent_id, break_type |-> break_type, start_time |-> start_time,
    end_time |-> end_time, duration_minutes |-> duration_minutes,
    is_overdue |-> is_overdue ]

Shift(agent_id, start_date, start_time, end_date, end_time) ==
  [ agent_id |-> agent_id, start_date |-> start_date, start_time |-> start_time,
    end_date |-> end_date, end_time |-> end_time ]

(* The positions of the rows of a table, in the table's order *)
Positions(table) == [i \in 1..Len(table) |-> i]

(* `.order_by(BreakRecord.start_time.desc()).first()': None, or a row of rows with
   the latest start_time *)
latest(rows) ==
  IF rows = <<>> THEN None
  ELSE Some(CHOOSE r \in {rows[i] : i \in 1..Len(rows)} :
              \A i \in 1..Len(rows) : rows[i].start_time <= r.start_time)

(* `.first()' of a query without ORDER BY *)
first(rows) == IF rows = <<>> THEN None ELSE Some(Head(rows))

----------------------------------------------------------------------------
(* GET /api/breaks: the breaks of the dashboard, grouped by shift          *)

(* A row put in its place in a list ordered by start_time, latest first *)
RECURSIVE insert_desc(_, _)
insert_desc(b, sorted) ==
  IF sorted = <<>> THEN <<b>>
  ELSE IF Head(sorted).start_time < b.start_time THEN <<b>> \o sorted
  ELSE <<Head(sorted)>> \o insert_desc(b, Tail(sorted))

(* `.order_by(BreakRecord.start_time.desc())': rows with equal start_time
   stay in the table's order *)
RECURSIVE order_by_start_time_desc(_)
order_by_start_time_desc(rows) ==
  IF rows = <<>> THEN <<>>
  ELSE insert_desc(rows[Len(rows)], order_by_start_time_desc(SubSeq(rows, 1, Len(rows) - 1)))

(* lines 514-529: the records of the extended range that are no punches;
   the filters agent_id and break_type are None or Some(value) *)
dashboard_breaks(start_date, end_date, agent_id, break_type) ==
  LET extended_start_date == start_date - 1
      extended_end_date == end_date + 1
      breaks ==
        order_by_start_time_desc(
          SelectSeq(break_records,
                    LAMBDA b : /\ date(b.start_time) >= extended_start_date
                               /\ date(b.start_time) <= extended_end_date
                               /\ agent_id # None => b.agent_id = agent_id[1]
                               /\ break_type # None => b.break_type = break_type[1]))
  IN  SelectSeq(breaks, LAMBDA b : b.break_type \notin ATTENDANCE)

(* lines 594-612: the shifts that start in, end in, or span the extended range *)
all_shifts(start_date, end_date) ==
  LET extended_start_date == start_date - 1
      extended_end_date == end_date + 1
  IN  SelectSeq(shift_records,
                LAMBDA s : \/ /\ s.start_date >= extended_start_date
                              /\ s.start_date <= extended_end_date
                           \/ /\ s.end_date >= extended_start_date
                              /\ s.end_date <= extended_end_date
                           \/ /\ s.start_date <= extended_start_date
                              /\ s.end_date >= extended_end_date)

(* shifts_by_agent.get(agent_id, []) *)
shifts_by_agent(shifts, agent_id) == SelectSeq(shifts, LAMBDA s : s.agent_id = agent_id)

(* The first shift of a list that satisfies a condition, or None *)
first_shift(shifts) == IF shifts = <<>> THEN None ELSE Some(Head(shifts))

(* lines 635-670: None, or Some(shift) *)
find_shift_for_break(break_record, agent_shifts) ==
  LET break_time == break_record.start_time
      punch_in ==
        latest(SelectSeq(break_records,
                         LAMBDA b : /\ b.agent_id = break_record.agent_id
                                    /\ b.break_type = "punch_in"
                                    /\ b.start_time <= break_time
                                    /\ b.start_time >= break_time - 24 * Hour))
      by_punch_in ==
        IF punch_in = None THEN None
        ELSE first_shift(SelectSeq(agent_shifts,
                                   LAMBDA s : /\ s.start_date <= date(punch_in[1].start_time)
                                              /\ date(punch_in[1].start_time) <= s.end_date))
      break_date == date(break_time)
      by_break_time ==
        first_shift(SelectSeq(agent_shifts,
                              LAMBDA s : /\ s.start_date <= break_date
                                         /\ break_date <= s.end_date
                                         /\ break_time - combine(s.start_date, s.start_time) >= 0
                                         /\ break_time - combine(s.start_date, s.start_time)
                                              <= 24 * Hour))
  IN  IF by_punch_in # None THEN by_punch_in ELSE by_break_time

(* lines 675-710: the entries of the breaks lists, in the order they are
   added; agents_data[a]['breaks'] holds the entries of agent a *)
get_breaks(start_date, end_date, agent_id, break_type) ==
  LET regular == dashboard_breaks(start_date, end_date, agent_id, break_type)
      shift_of(br) ==
        find_shift_for_break(br, shifts_by_agent(all_shifts(start_date, end_date), br.agent_id))
      shown ==
        SelectSeq(regular,
                  LAMBDA br : IF shift_of(br) # None
                              THEN /\ shift_of(br)[1].start_date >= start_date
                                   /\ shift_of(br)[1].start_date <= end_date
                              ELSE /\ date(br.start_time) >= start_date
                                   /\ date(br.start_time) <= end_date)
  IN  [ breaks |-> [i \in 1..Len(shown) |->
                      [ agent_id |-> shown[i].agent_id,
                        break |-> shown[i],
                        shift_date |-> IF shift_of(shown[i]) # None
                                       THEN shift_of(shown[i])[1].start_date
                                       ELSE date(shown[i].start_time) ]],
        total_breaks |-> Len(regular) ]

----------------------------------------------------------------------------
(* GET /api/breaks: the attendance lists, lines 514-592 and 711-827.  A row *)
(* is named by its id, its position in the table.                          *)

(* An id put in its place in a list of ids ordered by start_time, latest
   first *)
RECURSIVE insert_id_desc(_, _)
insert_id_desc(id, sorted) ==
  IF sorted = <<>> THEN <<id>>
  ELSE IF break_records[Head(sorted)].start_time < break_records[id].start_time
       THEN <<id>> \o sorted
       ELSE <<Head(sorted)>> \o insert_id_desc(id, Tail(sorted))

RECURSIVE ids_by_start_time_desc(_)
ids_by_start_time_desc(ids) ==
  IF ids = <<>> THEN <<>>
  ELSE insert_id_desc(ids[Len(ids)], ids_by_start_time_desc(SubSeq(ids, 1, Len(ids) - 1)))

(* lines 514-528: the punches of the extended range, latest first *)
attendance_query(start_date, end_date, agent_id, break_type) ==
  ids_by_start_time_desc(
    SelectSeq(Positions(break_records),
              LAMBDA i : /\ date(break_records[i].start_time) >= start_date - 1
                         /\ date(break_records[i].start_time) <= end_date + 1
                         /\ agent_id # None => break_records[i].agent_id = agent_id[1]
                         /\ break_type # None => break_records[i].break_type = break_type[1]
                         /\ break_records[i].break_type \in ATTENDANCE))

(* The ids of a list that are not yet in another, appended to it *)
RECURSIVE append_new(_, _)
append_new(list, ids) ==
  IF ids = <<>> THEN list
  ELSE append_new(IF \E k \in 1..Len(list) : list[k] = Head(ids)
                  THEN list ELSE Append(list, Head(ids)),
                  Tail(ids))

(* lines 546-556: the punch_out rows of the same agent in the two days
   after a punch_in *)
matching_punch_outs(punch_in) ==
  SelectSeq(Positions(break_records),
            LAMBDA i : /\ break_records[i].agent_id = break_records[punch_in].agent_id
                       /\ break_records[i].break_type = "punch_out"
                       /\ break_records[i].start_time > break_records[punch_in].start_time
                       /\ break_records[i].start_time <=
                            break_records[punch_in].start_time + 2 * Day)

(* lines 572-582: the punch_in rows of the same agent in the two days
   before a punch_out *)
matching_punch_ins(punch_out) ==
  SelectSeq(Positions(break_records),
            LAMBDA i : /\ break_records[i].agent_id = break_records[punch_out].agent_id
                       /\ break_records[i].break_type = "punch_in"
                       /\ break_records[i].start_time >=
                            break_records[punch_out].start_time - 2 * Day
                       /\ break_records[i].start_time < break_records[punch_out].start_time)

(* lines 535-592: the loops over attendance_records from its k-th row on *)
RECURSIVE extend_with_punch_outs(_, _, _)
extend_with_punch_outs(extended, attendance, k) ==
  IF k > Len(attendance) THEN extended
  ELSE extend_with_punch_outs(
         IF break_records[attendance[k]].break_type = "punch_in"
         THEN append_new(extended, matching_punch_outs(attendance[k]))
         ELSE extended,
         attendance, k + 1)

RECURSIVE extend_with_punch_ins(_, _, _)
extend_with_punch_ins(extended, attendance, k) ==
  IF k > Len(attendance) THEN extended
  ELSE extend_with_punch_ins(
         IF break_records[attendance[k]].break_type = "punch_out"
         THEN append_new(extended, matching_punch_ins(attendance[k]))
         ELSE extended,
         attendance, k + 1)

extended_attendance(start_date, end_date, agent_id, break_type) ==
  LET attendance == attendance_query(start_date, end_date, agent_id, break_type)
  IN  extend_with_punch_ins(extend_with_punch_outs(attendance, attendance, 1),
                            attendance, 1)

(* lines 717-758: the punch is shown when its date is in the range, or when
   it is a punch_out and the first shift of its agent that holds its date
   starts in the range *)
should_include(id, start_date, end_date) ==
  LET br == break_records[id]
      punch_date == date(br.start_time)
      agent_shifts == shifts_by_agent(all_shifts(start_date, end_date), br.agent_id)
      holding == SelectSeq(agent_shifts,
                           LAMBDA sh : sh.start_date <= punch_date /\ punch_date <= sh.end_date)
  IN  \/ punch_date >= start_date /\ punch_date <= end_date
      \/ /\ holding # <<>>
         /\ Head(holding).start_date >= start_date
         /\ Head(holding).start_date <= end_date
         /\ br.break_type = "punch_out"

(* An id put in its place in a list of ids ordered by start_time, earliest
   first, after the ids of the same start_time *)
RECURSIVE insert_id_asc(_, _)
insert_id_asc(id, sorted) ==
  IF sorted = <<>> THEN <<id>>
  ELSE IF break_records[id].start_time < break_records[Head(sorted)].start_time
       THEN <<id>> \o sorted
       ELSE <<Head(sorted)>> \o insert_id_asc(id, Tail(sorted))

(* line 761: list.sort by start_time, a stable sort *)
RECURSIVE sort_by_start_time(_)
sort_by_start_time(ids) ==
  IF ids = <<>> THEN <<>>
  ELSE insert_id_asc(ids[Len(ids)], sort_by_start_time(SubSeq(ids, 1, Len(ids) - 1)))

(* lines 711-764: agent_attendance[agent_id] *)
agent_attendance(start_date, end_date, agent_id, break_type, agent) ==
  SelectSeq(sort_by_start_time(
              SelectSeq(extended_attendance(start_date, end_date, agent_id, break_type),
                        LAMBDA id : should_include(id, start_date, end_date))),
            LAMBDA id : break_records[id].agent_id = agent)

(* lines 782-827: the loop `while i < len(records)' from the i-th record on;
   an entry is a punch_pair (punch_in and its punch_out, or None) or a
   standalone punch_out (punch_in None) *)
RECURSIVE pair_punches(_, _)
pair_punches(records, i) ==
  IF i > Len(records) THEN <<>>
  ELSE IF break_records[records[i]].break_type = "punch_in"
  THEN LET later == SelectSeq([k \in 1..Len(records) |-> k],
                              LAMBDA j : j > i /\ break_records[records[j]].break_type = "punch_out")
       IN  IF later # <<>>
           THEN <<[type |-> "punch_pair", punch_in |-> Some(records[i]),
                   punch_out |-> Some(records[Head(later)])]>>
                \o pair_punches(records, Head(later) + 1)
           ELSE <<[type |-> "punch_pair", punch_in |-> Some(records[i]), punch_out |-> None]>>
                \o pair_punches(records, i + 1)
  ELSE <<[type |-> "punch_out", punch_in |-> None, punch_out |-> Some(records[i])]>>
       \o pair_punches(records, i + 1)

(* agents_data[agent]['attendance'] of the answer of get_breaks *)
get_breaks_attendance(start_date, end_date, agent_id, break_type, agent) ==
  pair_punches(agent_attendance(start_date, end_date, agent_id, break_type, agent), 1)

----------------------------------------------------------------------------
(* POST /api/break/start *)

(* The agent's active break: the first row without end_time that is no punch *)
active_break(agent_id) ==
  SelectSeq(Positions(break_records),
            LAMBDA i : /\ break_records[i].agent_id = agent_id
                       /\ break_records[i].end_time = None
                       /\ break_records[i].break_type \notin ATTENDANCE)

punches(agent_id, break_type) ==
  SelectSeq(break_records,
            LAMBDA b : b.agent_id = agent_id /\ b.break_type = break_type)

punches_today(agent_id, break_type, today) ==
  SelectSeq(punches(agent_id, break_type), LAMBDA b : date(b.start_time) = today)

punches_last_24_hours(agent_id, break_type, at) ==
  SelectSeq(punches(agent_id, break_type),
            LAMBDA b : b.start_time >= at - 24 * Hour /\ b.start_time <= at)

(* A variant of punch_out_allowed that only asks for a punch_in *)
punch_out_allowed_after_any_punch_in(agent_id) ==
  latest(punches(agent_id, "punch_in")) # None

(* lines 877-899: may the agent punch out? *)
punch_out_allowed(agent_id) ==
  LET punch_in == latest(punches(agent_id, "punch_in"))
  IN  /\ punch_in # None
      /\ SelectSeq(punches(agent_id, "punch_out"),
                   LAMBDA b : b.start_time > punch_in[1].start_time) = <<>>

(* lines 900-951: may the agent start a break? *)
break_allowed(agent_id, at) ==
  LET today == date(at)
      in_today == first(punches_today(agent_id, "punch_in", today))
      punch_in == IF in_today # None THEN in_today
                  ELSE latest(punches_last_24_hours(agent_id, "punch_in", at))
      out_today == first(punches_today(agent_id, "punch_out", today))
      punch_out == IF out_today # None THEN out_today
                   ELSE latest(punches_last_24_hours(agent_id, "punch_out", at))
  IN  /\ punch_in # None
      /\ ~ (punch_out # None /\ punch_out[1].start_time > punch_in[1].start_time)

(* Whether start_break adds a record *)
start_break_accepted(agent_id, break_type, screenshot) ==
  /\ active_break(agent_id) = <<>>
  /\ break_type \in DOMAIN BREAK_DURATIONS
  /\ break_type # "punch_in" =>
        IF break_type = "punch_out"
        THEN punch_out_allowed(agent_id)
        ELSE break_allowed(agent_id, now)
  /\ screenshot
  /\ break_type \in ATTENDANCE =>
        punches_today(agent_id, break_type, date(now)) = <<>>

start_break(agent_id, break_type, screenshot) ==
  /\ break_records' =
        IF start_break_accepted(agent_id, break_type, screenshot)
        THEN Append(break_records,
                    IF break_type \in ATTENDANCE
                    THEN BreakRecord(agent_id, break_type, now, Some(now), Some(0), FALSE)
                    ELSE BreakRecord(agent_id, break_type, now, None, None, FALSE))
        ELSE break_records
  /\ UNCHANGED <<shift_records, now, response, pending>>

----------------------------------------------------------------------------
(* POST /api/break/end *)

(* A variant of overdue_flag without the exemption of working-time breaks *)
overdue_flag_of_any_type(break_type, duration_minutes) ==
  duration_minutes > BREAK_DURATIONS[break_type]

(* A variant of overdue_flag that grants a quarter of an hour of grace *)
overdue_flag_with_grace(break_type, duration_minutes) ==
  IF break_type \in WORKING_TIME_BREAKS
  THEN FALSE
  ELSE duration_minutes > BREAK_DURATIONS[break_type] + 15

(* lines 1046-1049 and 1201-1207: the stored flag of a closed record *)
overdue_flag(break_type, duration_minutes) ==
  IF break_type \in WORKING_TIME_BREAKS
  THEN FALSE
  ELSE duration_minutes > BREAK_DURATIONS[break_type]

(* A variant of end_break that takes the first active break of the table,
   whoever its agent is *)
end_break_of_any_agent(agent_id, screenshot) ==
  LET active == SelectSeq(Positions(break_records),
                          LAMBDA i : /\ break_records[i].end_time = None
                                     /\ break_records[i].break_type \notin ATTENDANCE)
  IN  /\ break_records' =
            IF active # <<>> /\ screenshot
            THEN LET i == Head(active)
                     b == break_records[i]
                     duration_minutes == TruncDiv(now - b.start_time, Minute)
                 IN  [break_records EXCEPT
                        ![i] = [b EXCEPT
                                  !.end_time = Some(now),
                                  !.duration_minutes = Some(duration_minutes),
                                  !.is_overdue =
                                    overdue_flag(b.break_type, duration_minutes)]]
            ELSE break_records
      /\ UNCHANGED <<shift_records, now, response, pending>>

end_break(agent_id, screenshot) ==
  LET active == active_break(agent_id)
  IN  /\ break_records' =
            IF active # <<>> /\ screenshot
            THEN LET i == Head(active)
                     b == break_records[i]
                     duration_minutes == TruncDiv(now - b.start_time, Minute)
                 IN  [break_records EXCEPT
                        ![i] = [b EXCEPT
                                  !.end_time = Some(now),
                                  !.duration_minutes = Some(duration_minutes),
                                  !.is_overdue =
                                    overdue_flag(b.break_type, duration_minutes)]]
            ELSE break_records
      /\ UNCHANGED <<shift_records, now, response, pending>>

----------------------------------------------------------------------------
(* POST /api/break/manual *)

(* lines 1111-1142: the end of the record, or "rejected" *)
manual_end_datetime(break_type, start_datetime, start_date, end_date, end_time) ==
  IF end_time # None
  THEN LET end_datetime ==
             IF end_date # None THEN combine(end_date[1], end_time[1])
             ELSE combine(start_date, end_time[1])
       IN  IF break_type \notin ATTENDANCE
           THEN IF end_datetime <= start_datetime THEN "rejected" ELSE Some(end_datetime)
           ELSE IF end_datetime < start_datetime THEN Some(start_datetime)
                ELSE Some(end_datetime)
  ELSE IF break_type \in ATTENDANCE THEN Some(start_datetime) ELSE None

create_manual_break(agent_id, break_type, start_date, start_time, end_date, end_time) ==
  LET start_datetime == combine(start_date, start_time)
      parsed_end ==
        manual_end_datetime(break_type, start_datetime, start_date, end_date, end_time)
      end_datetime == IF break_type \in ATTENDANCE THEN Some(start_datetime) ELSE parsed_end
      duration_minutes ==
        IF break_type \in ATTENDANCE THEN Some(0)
        ELSE IF end_datetime # None
             THEN Some(TruncDiv(end_datetime[1] - start_datetime, Minute))
             ELSE None
      is_overdue ==
        IF break_type \in ATTENDANCE \/ break_type \in WORKING_TIME_BREAKS THEN FALSE
        ELSE IF end_datetime # None /\ duration_minutes # None
             THEN overdue_flag(break_type, duration_minutes[1])
             ELSE FALSE
  IN  /\ break_records' =
            IF break_type \in DOMAIN BREAK_DURATIONS /\ parsed_end # "rejected"
            THEN Append(break_records,
                        BreakRecord(agent_id, break_type, start_datetime, end_datetime,
                                    duration_minutes, is_overdue))
            ELSE break_records
      /\ UNCHANGED <<shift_records, now, response, pending>>

----------------------------------------------------------------------------
(* POST /api/shift *)

create_shift(agent_id, start_date, start_time, end_date, end_time) ==
  LET start_datetime == combine(start_date, start_time)
      end_datetime == combine(end_date, end_time)
      existing == SelectSeq(Positions(shift_records),
                            LAMBDA i : /\ shift_records[i].agent_id = agent_id
                                       /\ shift_records[i].start_date = start_date
                                       /\ shift_records[i].start_time = start_time)
  IN  /\ shift_records' =
            IF end_datetime <= start_datetime THEN shift_records
            ELSE IF existing # <<>>
            THEN [shift_records EXCEPT ![Head(existing)].end_date = end_date,
                                       ![Head(existing)].end_time = end_time]
            ELSE Append(shift_records,
                        Shift(agent_id, start_date, start_time, end_date, end_time))
      /\ Len(shift_records') <= MaxShifts
      /\ UNCHANGED <<break_records, now, response, pending>>

----------------------------------------------------------------------------
(* POST /api/shift/bulk *)

(* lines 1406-1427 for one agent and one date: the agent's first single-day
   shift of that date gets the new times, or a single-day shift is added *)
bulk_shift(shifts, agent_id, shift_date, start_time, end_time) ==
  LET existing == SelectSeq(Positions(shifts),
                            LAMBDA i : /\ shifts[i].agent_id = agent_id
                                       /\ shifts[i].start_date = shift_date
                                       /\ shifts[i].end_date = shift_date)
  IN  IF existing # <<>>
      THEN [shifts EXCEPT ![Head(existing)].start_time = start_time,
                          ![Head(existing)].end_time = end_time]
      ELSE Append(shifts, Shift(agent_id, shift_date, start_time, shift_date, end_time))

(* lines 1401-1427: the loops over agent_ids and over the dates start_date..end_date *)
RECURSIVE bulk_shifts(_, _, _, _, _, _, _)
bulk_shifts(shifts, agent_ids, shift_date, start_date, end_date, start_time, end_time) ==
  IF agent_ids = <<>> THEN shifts
  ELSE IF Head(agent_ids) \notin Agents \/ shift_date > end_date
  THEN bulk_shifts(shifts, Tail(agent_ids), start_date, start_date, end_date,
                   start_time, end_time)
  ELSE bulk_shifts(bulk_shift(shifts, Head(agent_ids), shift_date, start_time, end_time),
                   agent_ids, shift_date + 1, start_date, end_date, start_time, end_time)

create_bulk_shifts(agent_ids, start_date, end_date, start_time, end_time) ==
  LET days_diff == end_date - start_date + 1
  IN  /\ shift_records' =
            IF agent_ids = <<>> \/ days_diff > 14 \/ days_diff < 1 THEN shift_records
            ELSE bulk_shifts(shift_records, agent_ids, start_date, start_date, end_date,
                             start_time, end_time)
      /\ Len(shift_records') <= MaxShifts
      /\ UNCHANGED <<break_records, now, response, pending>>

----------------------------------------------------------------------------
(* PUT /api/shift/<shift_id>, DELETE /api/shift/<shift_id>; a shift_id is   *)
(* the position of the shift in the table                                  *)

(* data holds each of the four fields as None (absent) or Some(value) *)
update_shift(shift_id, data) ==
  /\ shift_records' =
        IF shift_id \notin 1..Len(shift_records) THEN shift_records
        ELSE LET shift == shift_records[shift_id]
             IN  [shift_records EXCEPT
                    ![shift_id] =
                      [ agent_id |-> shift.agent_id,
                        start_date |-> IF data.start_date # None THEN data.start_date[1]
                                       ELSE shift.start_date,
                        start_time |-> IF data.start_time # None THEN data.start_time[1]
                                       ELSE shift.start_time,
                        end_date |-> IF data.end_date # None THEN data.end_date[1]
                                     ELSE shift.end_date,
                        end_time |-> IF data.end_time # None THEN data.end_time[1]
                                     ELSE shift.end_time ]]
  /\ UNCHANGED <<break_records, now, response, pending>>

delete_shift(shift_id) ==
  /\ shift_records' =
        IF shift_id \notin 1..Len(shift_records) THEN shift_records
        ELSE Without(shift_records, shift_id)
  /\ UNCHANGED <<break_records, now, response, pending>>

----------------------------------------------------------------------------
(* The break table of the model takes one more record *)
room == Len(break_records) < MaxBreaks

----------------------------------------------------------------------------
(* The clock *)

TickStep == 35 * Minute + 30

(* The clock of the server advances, up to clock_end *)
Tick(clock_end) ==
  /\ now + TickStep <= clock_end
  /\ now' = now + TickStep
  /\ UNCHANGED <<break_records, shift_records, response, pending>>

----------------------------------------------------------------------------
(* The system: one agent takes breaks while the RTM enters breaks and     *)
(* compensation by hand and schedules day shifts.                         *)

ClockStart == combine(1, HM(9, 2) + 30)

BreakTypes == {"punch_in", "lunch", "coaching_aya", "punch_out"}

ManualTypes == {"lunch", "compensation"}

ManualEndDates == {None, Some(2)}

ManualEndTimes == {None, Some(HM(9, 20)), Some(HM(10, 30))}

Dates == {1, 2}

Init ==
  /\ break_records = <<>>
  /\ shift_records = <<>>
  /\ now = ClockStart
  /\ response = None
  /\ pending = <<>>

Next ==
  \/ \E a \in Agents, t \in BreakTypes \cup {"nap"}, shot \in BOOLEAN :
        room /\ start_break(a, t, shot)
  \/ \E a \in Agents, shot \in BOOLEAN : end_break(a, shot)
  \/ \E a \in Agents, t \in ManualTypes \cup {"nap"},
         ed \in ManualEndDates, et \in ManualEndTimes :
        room /\ create_manual_break(a, t, 1, HM(9, 0), ed, et)
  \/ \E a \in Agents, d \in Dates : create_shift(a, d, HM(9, 0), d, HM(17, 0))
  \/ Tick(ClockStart + MaxTicks * TickStep)

Spec == Init /\ [][Next]_vars

----------------------------------------------------------------------------
(* The system at the start of a night: the agent punches at 21:57:30, the *)
(* RTM enters punches and breaks by hand and schedules an afternoon shift *)
(* (14:00-22:00) and a night shift (22:00-06:00) that start on day 1.     *)

PunchClock == combine(1, HM(21, 57) + 30)

PunchTypes == {"punch_in", "punch_out", "lunch"}

PunchTimes == {HM(6, 0), HM(22, 20)}

ShiftStartTimes == {HM(14, 0), HM(22, 0)}

ShiftEndTimes == {HM(6, 0), HM(22, 0)}

InitPunch ==
  /\ break_records = <<>>
  /\ shift_records = <<>>
  /\ now = PunchClock
  /\ response = None
  /\ pending = <<>>

NextPunch ==
  \/ \E a \in Agents, t \in ATTENDANCE : room /\ start_break(a, t, TRUE)
  \/ \E a \in Agents, t \in PunchTypes, d \in Dates, st \in PunchTimes :
        room /\ create_manual_break(a, t, d, st, None, Some(HM(22, 20)))
  \/ \E a \in Agents, st \in ShiftStartTimes, ed \in Dates, et \in ShiftEndTimes :
        create_shift(a, 1, st, ed, et)

SpecPunch == InitPunch /\ [][NextPunch]_vars

----------------------------------------------------------------------------
(* fix_existing_working_time_breaks, run at startup and by                  *)
(* POST /api/fix/working-time-breaks                                        *)

fix_existing_working_time_breaks ==
  /\ break_records' =
        [i \in 1..Len(break_records) |->
           IF break_records[i].break_type \in WORKING_TIME_BREAKS /\ break_records[i].is_overdue
           THEN [break_records[i] EXCEPT !.is_overdue = FALSE]
           ELSE break_records[i]]
  /\ UNCHANGED <<shift_records, now, response, pending>>

----------------------------------------------------------------------------
(* The system at noon of day 1: the RTM enters records by hand for day 1   *)
(* and for day 2, with or without an end, the agent punches in, starts a   *)
(* coaching session and ends whatever break is active, and the RTM runs    *)
(* the working-time fix.                                                   *)

DeskClock == combine(1, HM(12, 0))

DeskLiveTypes == {"punch_in", "coaching_aya"}

DeskTypes == {"punch_out", "lunch", "overtime", "compensation"}

DeskEndTimes == {None, Some(HM(8, 0)), Some(HM(9, 20)), Some(HM(9, 40))}

InitDesk ==
  /\ break_records = <<>>
  /\ shift_records = <<>>
  /\ now = DeskClock
  /\ response = None
  /\ pending = <<>>

NextDesk ==
  \/ \E a \in Agents, t \in DeskLiveTypes : room /\ start_break(a, t, TRUE)
  \/ \E a \in Agents : end_break(a, TRUE)
  \/ \E a \in Agents, t \in DeskTypes, d \in Dates, et \in DeskEndTimes :
        room /\ create_manual_break(a, t, d, HM(9, 0), None, et)
  \/ fix_existing_working_time_breaks
  \/ Tick(DeskClock + MaxTicks * TickStep)

SpecDesk == InitDesk /\ [][NextDesk]_vars

----------------------------------------------------------------------------
(* POST /api/break/start, request by request: the server runs requests in  *)
(* parallel, the table has no unique constraint and the handler takes no   *)
(* lock, so that the checks of one request may run between the checks and  *)
(* the commit of another.                                                  *)

(* lines 853-994 of a request that passes them: the record is built with
   the time of the server (line 965) and waits for its commit *)
start_break_checks(agent_id, break_type, screenshot) ==
  /\ start_break_accepted(agent_id, break_type, screenshot)
  /\ pending' =
        Append(pending,
               IF break_type \in ATTENDANCE
               THEN BreakRecord(agent_id, break_type, now, Some(now), Some(0), FALSE)
               ELSE BreakRecord(agent_id, break_type, now, None, None, FALSE))
  /\ UNCHANGED <<break_records, shift_records, now, response>>

(* lines 996-997 of the i-th request in flight *)
start_break_commits(i) ==
  /\ i \in 1..Len(pending)
  /\ break_records' = Append(break_records, pending[i])
  /\ pending' = Without(pending, i)
  /\ UNCHANGED <<shift_records, now, response>>

(* The tables of the model take one more request *)
room_in_flight ==
  /\ Len(pending) < MaxPending
  /\ Len(break_records) + Len(pending) < MaxRecords

(* The system at noon of day 1: the agent sends requests to punch in and   *)
(* to start lunch, several at once, ends breaks, and the RTM enters a      *)
(* lunch without an end by hand.                                           *)

RaceTypes == {"punch_in", "lunch"}

InitRace ==
  /\ break_records = <<>>
  /\ shift_records = <<>>
  /\ now = DeskClock
  /\ response = None
  /\ pending = <<>>

NextRace ==
  \/ \E a \in Agents, t \in RaceTypes : room_in_flight /\ start_break_checks(a, t, TRUE)
  \/ \E i \in 1..MaxPending : start_break_commits(i)
  \/ \E a \in Agents : end_break(a, TRUE)
  \/ \E a \in Agents :
        room_in_flight /\ create_manual_break(a, "lunch", 1, HM(11, 0), None, None)
  \/ Tick(DeskClock + MaxTicks * TickStep)

SpecRace == InitRace /\ [][NextRace]_vars

----------------------------------------------------------------------------
(* The system over two days of attendance: from 22:00 of day 1 the agent   *)
(* punches in and out, starts and ends lunch, while the RTM enters punches *)
(* of the morning of day 2 by hand; the clock moves on eight hours at a    *)
(* time.                                                                   *)

(* The clock of the server moves on to a later instant *)
Advance(instant) ==
  /\ now < instant
  /\ now' = instant
  /\ UNCHANGED <<break_records, shift_records, response, pending>>

(* The tables of the model take one more record *)
room_for_attendance == Len(break_records) < MaxRecords

AttendanceClock == combine(1, HM(22, 0))

AttendanceInstants == {combine(2, HM(6, 0)), combine(2, HM(14, 0)), combine(2, HM(22, 0))}

AttendanceTypes == {"punch_in", "punch_out", "lunch"}

AttendanceEntryTimes == {HM(7, 0), HM(8, 0), HM(9, 0)}

InitAttendance ==
  /\ break_records = <<>>
  /\ shift_records = <<>>
  /\ now = AttendanceClock
  /\ response = None
  /\ pending = <<>>

NextAttendance ==
  \/ \E a \in Agents, t \in AttendanceTypes :
        room_for_attendance /\ start_break(a, t, TRUE)
  \/ \E a \in Agents : end_break(a, TRUE)
  \/ \E a \in Agents, t \in ATTENDANCE, st \in AttendanceEntryTimes :
        room_for_attendance /\ create_manual_break(a, t, 2, st, None, None)
  \/ \E instant \in AttendanceInstants : Advance(instant)

SpecAttendance == InitAttendance /\ [][NextAttendance]_vars

----------------------------------------------------------------------------
(* The system of the scheduler: the RTM creates shifts one by one and in   *)
(* bulk, edits them and deletes them.                                      *)

SchedAgentIds == {<<1>>, <<7>>}

SchedStartTimes == {HM(9, 0), HM(22, 0)}

SchedEndTimes == {HM(6, 0), HM(17, 0)}

(* The bodies of PUT /api/shift/<shift_id> *)
SchedUpdates ==
  [ start_date : {None, Some(2)}, start_time : {None, Some(HM(22, 0))},
    end_date : {None, Some(1)}, end_time : {None, Some(HM(6, 0))} ]

InitSched ==
  /\ break_records = <<>>
  /\ shift_records = <<>>
  /\ now = ClockStart
  /\ response = None
  /\ pending = <<>>

NextSched ==
  \/ \E a \in Agents, sd \in Dates, st \in SchedStartTimes, ed \in Dates, et \in SchedEndTimes :
        create_shift(a, sd, st, ed, et)
  \/ \E ids \in SchedAgentIds, sd \in Dates, ed \in Dates,
         st \in SchedStartTimes, et \in SchedEndTimes :
        create_bulk_shifts(ids, sd, ed, st, et)
  \/ \E id \in 1..MaxShifts, data \in SchedUpdates : update_shift(id, data)
  \/ \E id \in 1..MaxShifts : delete_shift(id)

SpecSched == InitSched /\ [][NextSched]_vars

----------------------------------------------------------------------------
(* The system of two nights: the RTM schedules the night shifts of day 1   *)
(* and of day 2 (22:00-06:00), in either order, and enters punch-ins and   *)
(* lunches of those nights by hand.                                        *)

(* break_type, start_time and end_time of the entries *)
NightEntries ==
  { <<"punch_in", HM(0, 30), None>>, <<"punch_in", HM(21, 57), None>>,
    <<"lunch", HM(1, 0), Some(HM(1, 20))>>, <<"lunch", HM(23, 0), Some(HM(23, 20))>> }

InitNights ==
  /\ break_records = <<>>
  /\ shift_records = <<>>
  /\ now = combine(3, HM(12, 0))
  /\ response = None
  /\ pending = <<>>

NextNights ==
  \/ \E a \in Agents, d \in Dates : create_shift(a, d, HM(22, 0), d + 1, HM(6, 0))
  \/ \E a \in Agents, d \in Dates, e \in NightEntries :
        room /\ create_manual_break(a, e[1], d, e[2], None, e[3])

SpecNights == InitNights /\ [][NextNights]_vars

----------------------------------------------------------------------------
(* GET /api/report/metrics and GET /api/report/export, requested by the RTM *)

(* The users with role agent in the order of full_name, lines 1908 and 1977 *)
ReportAgents == <<1, 2>>

(* The start_date and end_date arguments of a report request: Some(d) is the
   text of the date d in the form %Y-%m-%d, None a text that strptime
   rejects. An argument left out defaults to a text of the first form. *)
DateStrings == {None} \cup {Some(d) : d \in Dates}

(* The sets of agents for which a query of calculate_agent_metrics raises
   (the database refuses the statement) and the error leaves the function:
   no agent, or the first of the loop *)
Failures == {{}, {ReportAgents[1]}}

(* calculate_agent_metrics(agent.id, start_date, end_date) raises: a query
   fails, or strptime raises ValueError on a text that is no date *)
raises(agent_id, start_date, end_date, failing) ==
  agent_id \in failing \/ start_date = None \/ end_date = None

(* An exception leaves the loop over the agents: neither route catches it,
   and the request is answered 500 *)
loop_raises(start_date, end_date, failing) ==
  \E i \in 1..Len(ReportAgents) : raises(ReportAgents[i], start_date, end_date, failing)

(* The metrics of every agent, in the order of the loop *)
agent_results(start_date, end_date) ==
  [i \in 1..Len(ReportAgents) |->
     calculate_agent_metrics(ReportAgents[i], start_date[1], end_date[1])]

(* A variant of average that divides by the number of all the agents *)
average_over_all_agents(sum_tenths, agent_count) ==
  IF agent_count > 0 THEN RoundHalfEven(sum_tenths, Len(ReportAgents)) ELSE 0

(* round(sum / agent_count, 1) in tenths, 0 without a counted agent *)
average(sum_tenths, agent_count) ==
  IF agent_count > 0 THEN RoundHalfEven(sum_tenths, agent_count) ELSE 0

(* The totals of get_metrics, lines 1911-1958: sums over all the agents,
   averages over the agents with a shift *)
metrics_totals(results) ==
  LET counted == SelectSeq(results, LAMBDA m : m.shifts_count > 0)
      utilization_sum == SumSeq([i \in 1..Len(counted) |-> counted[i].utilization])
      adherence_sum == SumSeq([i \in 1..Len(counted) |-> counted[i].adherence])
      conformance_sum == SumSeq([i \in 1..Len(counted) |-> counted[i].conformance])
  IN  [ total_scheduled_hours |->
          SumSeq([i \in 1..Len(results) |-> results[i].total_scheduled_hours]),
        total_break_minutes |->
          SumSeq([i \in 1..Len(results) |-> results[i].total_break_minutes]),
        exceeding_break_minutes |->
          SumSeq([i \in 1..Len(results) |-> results[i].exceeding_break_minutes]),
        incidents |-> SumSeq([i \in 1..Len(results) |-> results[i].incidents]),
        emergency_count |->
          SumSeq([i \in 1..Len(results) |-> results[i].emergency_count]),
        overtime_count |->
          SumSeq([i \in 1..Len(results) |-> results[i].overtime_count]),
        overtime_minutes |->
          SumSeq([i \in 1..Len(results) |-> results[i].overtime_minutes]),
        total_breaks |-> SumSeq([i \in 1..Len(results) |-> results[i].total_breaks]),
        utilization_sum |-> utilization_sum,
        adherence_sum |-> adherence_sum,
        conformance_sum |-> conformance_sum,
        agent_count |-> Len(counted),
        avg_utilization |-> average(utilization_sum, Len(counted)),
        avg_adherence |-> average(adherence_sum, Len(counted)),
        avg_conformance |-> average(conformance_sum, Len(counted)) ]

(* The answer of get_metrics *)
metrics_response(start_date, end_date, failing) ==
  IF loop_raises(start_date, end_date, failing)
  THEN [route |-> "metrics", status |-> 500]
  ELSE LET results == agent_results(start_date, end_date)
       IN  [ route |-> "metrics", status |-> 200,
             agents |-> [i \in 1..Len(ReportAgents) |->
                           [agent_id |-> ReportAgents[i], metrics |-> results[i]]],
             totals |-> metrics_totals(results),
             date_range |-> [start |-> start_date, end |-> end_date] ]

(* get_metrics, were it to store back a cleared overdue flag on every record *)
get_metrics_clearing_flags(start_date, end_date, failing) ==
  /\ response' = Some(metrics_response(start_date, end_date, failing))
  /\ break_records' =
        [i \in 1..Len(break_records) |-> [break_records[i] EXCEPT !.is_overdue = FALSE]]
  /\ UNCHANGED <<shift_records, now, pending>>

get_metrics(start_date, end_date, failing) ==
  /\ response' = Some(metrics_response(start_date, end_date, failing))
  /\ UNCHANGED <<break_records, shift_records, now, pending>>

(* The status column of the export, lines 2052-2061 *)
export_status(metrics) ==
  IF metrics.incidents = 0 /\ metrics.exceeding_break_minutes = 0 THEN "Good"
  ELSE IF metrics.incidents <= 2 \/ metrics.exceeding_break_minutes <= 15 THEN "Warning"
  ELSE "Needs Review"

(* The row of an agent in the sheet, lines 2063-2079 *)
export_row(agent_id, metrics) ==
  [ agent_id |-> agent_id,
    total_scheduled_hours |-> metrics.total_scheduled_hours,
    total_breaks |-> metrics.total_breaks,
    total_break_minutes |-> metrics.total_break_minutes,
    total_allowed_break_minutes |-> metrics.total_allowed_break_minutes,
    exceeding_break_minutes |-> metrics.exceeding_break_minutes,
    incidents |-> metrics.incidents,
    emergency_count |-> metrics.emergency_count,
    overtime_count |-> metrics.overtime_count,
    overtime_minutes |-> metrics.overtime_minutes,
    utilization |-> metrics.utilization,
    adherence |-> metrics.adherence,
    conformance |-> metrics.conformance,
    status |-> export_status(metrics) ]

(* The TOTAL / AVERAGE row of the sheet, lines 2089-2127 *)
export_totals(results) ==
  LET counted == SelectSeq(results, LAMBDA m : m.shifts_count > 0)
  IN  [ agents |-> Len(ReportAgents),
        scheduled_hours |->
          SumSeq([i \in 1..Len(results) |-> results[i].total_scheduled_hours]),
        breaks |-> SumSeq([i \in 1..Len(results) |-> results[i].total_breaks]),
        break_minutes |->
          SumSeq([i \in 1..Len(results) |-> results[i].total_break_minutes]),
        allowed_minutes |->
          SumSeq([i \in 1..Len(results) |-> results[i].total_allowed_break_minutes]),
        exceeding |->
          SumSeq([i \in 1..Len(results) |-> results[i].exceeding_break_minutes]),
        incidents |-> SumSeq([i \in 1..Len(results) |-> results[i].incidents]),
        emergency |-> SumSeq([i \in 1..Len(results) |-> results[i].emergency_count]),
        overtime_count |->
          SumSeq([i \in 1..Len(results) |-> results[i].overtime_count]),
        overtime_minutes |->
          SumSeq([i \in 1..Len(results) |-> results[i].overtime_minutes]),
        avg_util |->
          average(SumSeq([i \in 1..Len(counted) |-> counted[i].utilization]),
                  Len(counted)),
        avg_adh |->
          average(SumSeq([i \in 1..Len(counted) |-> counted[i].adherence]),
                  Len(counted)),
        avg_conf |->
          average(SumSeq([i \in 1..Len(counted) |-> counted[i].conformance]),
                  Len(counted)) ]

(* The sheet of export_report *)
export_response(start_date, end_date, failing) ==
  IF loop_raises(start_date, end_date, failing)
  THEN [route |-> "export", status |-> 500]
  ELSE LET results == agent_results(start_date, end_date)
       IN  [ route |-> "export", status |-> 200,
             rows |-> [i \in 1..Len(ReportAgents) |->
                         export_row(ReportAgents[i], results[i])],
             totals_row |-> export_totals(results),
             period |-> [start |-> start_date, end |-> end_date] ]

export_report(start_date, end_date, failing) ==
  /\ response' = Some(export_response(start_date, end_date, failing))
  /\ UNCHANGED <<break_records, shift_records, now, pending>>

----------------------------------------------------------------------------
(* The report desk: the RTM enters records and shifts of two agents for day 1 *)
(* and requests the two reports.                                             *)

ReportEntries ==
  { <<"punch_in", HM(9, 0), None>>, <<"lunch", HM(12, 0), Some(HM(12, 40))>> }

(* The ranges the RTM asks for: day 1, an end before the start, and a start
   that is no date *)
ReportRanges == { <<Some(1), Some(1)>>, <<Some(2), Some(1)>>, <<None, Some(1)>> }

InitReport ==
  /\ break_records = <<>>
  /\ shift_records = <<>>
  /\ now = combine(3, HM(12, 0))
  /\ response = None
  /\ pending = <<>>

NextReport ==
  \/ \E i \in 1..Len(ReportAgents), e \in ReportEntries :
        room /\ create_manual_break(ReportAgents[i], e[1], 1, e[2], None, e[3])
  \/ \E i \in 1..Len(ReportAgents) :
        create_shift(ReportAgents[i], 1, HM(9, 0), 1, HM(17, 0))
  \/ \E r \in ReportRanges, f \in Failures : get_metrics(r[1], r[2], f)
  \/ \E r \in ReportRanges, f \in Failures : export_report(r[1], r[2], f)

SpecReport == InitReport /\ [][NextReport]_vars

----------------------------------------------------------------------------
(* The floor at noon of day 1: the RTM enters breaks without an end for   *)
(* two agents, the agents end them, with or without a screenshot, and the *)
(* clock moves on.                                                        *)

FloorInstants == {combine(1, HM(12, 20) + 30), combine(1, HM(12, 50))}

FloorEntries ==
  { <<"lunch", HM(11, 55)>>, <<"coaching_aya", HM(11, 55)>>, <<"lunch", HM(12, 40)>> }

InitFloor ==
  /\ break_records = <<>>
  /\ shift_records = <<>>
  /\ now = DeskClock
  /\ response = None
  /\ pending = <<>>

NextFloor ==
  \/ \E i \in 1..Len(ReportAgents), e \in FloorEntries :
        room_for_attendance /\ create_manual_break(ReportAgents[i], e[1], 1, e[2], None, None)
  \/ \E i \in 1..Len(ReportAgents), shot \in BOOLEAN : end_break(ReportAgents[i], shot)
  \/ \E instant \in FloorInstants : Advance(instant)

SpecFloor == InitFloor /\ [][NextFloor]_vars

----------------------------------------------------------------------------
(* Requests to GET /api/metrics: an agent and a range of dates, lines 1898-1964 *)

RangeDates == Dates \cup {0, 3}

Requests == Agents \X RangeDates \X RangeDates

(* The records and the shifts a request reads, and its result *)
BreaksOf(r) == query_breaks(r[1], r[2], r[3])

ShiftsOf(r) == query_shifts(r[1], r[2], r[3])

MetricsOf(r) == calculate_agent_metrics(r[1], r[2], r[3])

----------------------------------------------------------------------------
(* The vocabulary of the properties *)

(* The regular break types: they consume the break allowance *)
RegularTypes == {"short", "lunch", "meeting", "huddle", "emergency"}

Completed(b) == b.end_time # None

(* The completed records of a list whose type is in types *)
CompletedOf(breaks, types) ==
  SelectSeq(breaks, LAMBDA b : Completed(b) /\ b.break_type \in types)

(* The minutes of the completed records of a list whose type is in types *)
MinutesOf(breaks, types) ==
  LET done == CompletedOf(breaks, types)
  IN  SumSeq([i \in 1..Len(done) |-> done[i].duration_minutes[1]])

(* clamp((480 n - max(0, B - allowance n)) / (480 n) * 100, 0, 100), in tenths *)
UtilizationTenths(n, B, allowance) ==
  LET expected == 480 * n
      actual == expected - Max(0, B - allowance * n)
  IN  IF actual <= 0 THEN 0
      ELSE IF actual >= expected THEN 1000
      ELSE RoundHalfEven(1000 * actual, expected)

(* min(100, (480 n - max(0, B - allowance n) + C) / (480 n) * 100), in tenths *)
ConformanceTenths(n, B, C, allowance) ==
  LET expected == 480 * n
      actual == expected - Max(0, B - allowance * n) + C
  IN  IF actual >= expected THEN 1000 ELSE RoundHalfEven(1000 * actual, expected)

(* The score of a punch diff seconds away from its shift boundary, as a fraction:
   100 within 5 minutes, else max(0, (30 - diff) / 30 * 100) *)
PunchScore(diff) ==
  IF diff <= 5 * 60 THEN <<100, 1>>
  ELSE IF diff >= 30 * 60 THEN <<0, 1>>
  ELSE <<30 * 60 - diff, 18>>

(* The mean of two fractions, rounded to one decimal, in tenths *)
MeanTenths(x, y) == RoundHalfEven(10 * (x[1] * y[2] + y[1] * x[2]), 2 * x[2] * y[2])

----------------------------------------------------------------------------
(* Properties of calculate_agent_metrics under Spec *)

(* C1: for every request, utilization, adherence and conformance are each
   between 0 and 100 (0 and 1000 tenths); conformance is never negative. *)
C1_Bounds ==
  \A r \in Requests :
    /\ MetricsOf(r).utilization \in 0..1000
    /\ MetricsOf(r).adherence \in 0..1000
    /\ MetricsOf(r).conformance \in 0..1000

(* C2, as the specification states it: a request with no shift in its range
   gets utilization 0, conformance 0, adherence 100 and incidents 0, whatever
   break and attendance records the range holds. *)
C2_NoShiftDefaults ==
  \A r \in Requests :
    ShiftsOf(r) = <<>> =>
      /\ MetricsOf(r).utilization = 0
      /\ MetricsOf(r).conformance = 0
      /\ MetricsOf(r).adherence = 1000
      /\ MetricsOf(r).incidents = 0

(* C2: a request with no shift in its range gets utilization 0 and
   conformance 0, and it gets adherence 100 and incidents 0 when the range
   holds no completed record other than working-time breaks and punches. *)
C2_NoShift ==
  \A r \in Requests :
    ShiftsOf(r) = <<>> =>
      /\ MetricsOf(r).utilization = 0
      /\ MetricsOf(r).conformance = 0
      /\ CompletedOf(BreaksOf(r),
                     DOMAIN BREAK_DURATIONS \ (WORKING_TIME_BREAKS \cup ATTENDANCE)) = <<>>
           => /\ MetricsOf(r).adherence = 1000
              /\ MetricsOf(r).incidents = 0

(* A request without shifts whose range holds a punch and a completed
   working-time break that ran over its allowed duration gets the defaults *)
C2_Witness ==
  \E r \in Requests :
    /\ ShiftsOf(r) = <<>>
    /\ CompletedOf(BreaksOf(r), ATTENDANCE) # <<>>
    /\ \E i \in 1..Len(BreaksOf(r)) :
          LET b == BreaksOf(r)[i]
          IN  /\ Completed(b)
              /\ b.break_type \in WORKING_TIME_BREAKS
              /\ b.duration_minutes[1] > BREAK_DURATIONS[b.break_type]
    /\ MetricsOf(r).utilization = 0
    /\ MetricsOf(r).conformance = 0
    /\ MetricsOf(r).adherence = 1000
    /\ MetricsOf(r).incidents = 0

(* C3: incidents is the number of completed records of the range, neither
   working-time breaks nor punches, whose duration exceeds the allowed
   duration of their type: every completed regular break that ran over is
   counted, and no working-time break is, however long it ran. *)
C3_OverdueConsistency ==
  \A r \in Requests :
    MetricsOf(r).incidents =
      Cardinality({i \in 1..Len(BreaksOf(r)) :
                     LET b == BreaksOf(r)[i]
                     IN  /\ Completed(b)
                         /\ b.break_type \notin (WORKING_TIME_BREAKS \cup ATTENDANCE)
                         /\ b.duration_minutes[1] > BREAK_DURATIONS[b.break_type]})

(* A range with a regular break that ran over and is the one incident *)
C3_Witness ==
  \E r \in Requests :
    /\ \E i \in 1..Len(BreaksOf(r)) :
          LET b == BreaksOf(r)[i]
          IN  /\ Completed(b)
              /\ b.break_type \in RegularTypes
              /\ b.duration_minutes[1] > BREAK_DURATIONS[b.break_type]
    /\ MetricsOf(r).incidents = 1

(* C4, as the specification states it (Scenario D): with exactly one shift in
   range and completed regular breaks totalling 90 minutes, the excess is 30
   minutes and utilization is 93.8. *)
C4_ScenarioD ==
  \A r \in Requests :
    (Len(ShiftsOf(r)) = 1 /\ MinutesOf(BreaksOf(r), RegularTypes) = 90) =>
      MetricsOf(r).utilization = 938

(* C4: for n >= 1 shifts in range and B the total_break_minutes of the result,
   utilization = clamp((480 n - max(0, B - 75 n)) / (480 n) * 100, 0, 100),
   rounded to one decimal: the allowance is 75 minutes per shift, so one shift
   and 90 break minutes give an excess of 15 minutes and utilization 96.9. *)
C4_Utilization ==
  \A r \in Requests :
    Len(ShiftsOf(r)) >= 1 =>
      /\ MetricsOf(r).utilization =
           UtilizationTenths(Len(ShiftsOf(r)), MetricsOf(r).total_break_minutes, 75)
      /\ (Len(ShiftsOf(r)) = 1 /\ MetricsOf(r).total_break_minutes = 90) =>
           MetricsOf(r).utilization = 969

(* Scenario D: one shift, one completed lunch of 90 minutes and nothing else *)
C4_Witness ==
  \E r \in Requests :
    /\ Len(ShiftsOf(r)) = 1
    /\ Len(BreaksOf(r)) = 1
    /\ MinutesOf(BreaksOf(r), {"lunch"}) = 90
    /\ MetricsOf(r).total_break_minutes = 90
    /\ MetricsOf(r).utilization = 969

(* C5: with at least one shift in range, a completed compensation record in
   the range does not change utilization: the result is the one of the same
   records without it. *)
C5_CompensationNeutral ==
  \A r \in Requests :
    Len(ShiftsOf(r)) >= 1 =>
      \A i \in 1..Len(BreaksOf(r)) :
        (BreaksOf(r)[i].break_type = "compensation" /\ Completed(BreaksOf(r)[i])) =>
          MetricsOf(r).utilization =
            metrics_of(Without(BreaksOf(r), i), ShiftsOf(r)).utilization

(* C6: for n >= 1 shifts in range, conformance =
   min(100, (480 n - max(0, B - allowance n) + C) / (480 n) * 100), rounded
   to one decimal, with B the minutes of the completed short, lunch, meeting,
   huddle and emergency breaks, C the minutes of the completed compensation
   records, and the allowance of 75 minutes per shift. *)
C6_Conformance ==
  \A r \in Requests :
    Len(ShiftsOf(r)) >= 1 =>
      MetricsOf(r).conformance =
        ConformanceTenths(Len(ShiftsOf(r)),
                          MinutesOf(BreaksOf(r), RegularTypes),
                          MinutesOf(BreaksOf(r), {"compensation"}),
                          75)

(* C10 (Scenario A generalised): when the only record of the range that is no
   punch is one completed regular break of duration d and allowed duration
   a > 0, the result has total_break_minutes = d, total_allowed_break_minutes
   = a, exceeding_break_minutes = max(0, d - a), incidents = 1 if d > a else
   0, and the score of the break is 100 if d <= a else a / d * 100; with no
   shift in range that score, rounded to one decimal, is the adherence. *)
C10_SingleBreak ==
  \A r \in Requests :
    LET breaks == SelectSeq(BreaksOf(r), LAMBDA b : b.break_type \notin ATTENDANCE)
        d == breaks[1].duration_minutes[1]
        a == BREAK_DURATIONS[breaks[1].break_type]
        m == MetricsOf(r)
        scores == break_scores(BreaksOf(r))
    IN  (Len(breaks) = 1 /\ Completed(breaks[1]) /\ breaks[1].break_type \in RegularTypes) =>
          /\ a > 0
          /\ m.total_break_minutes = d
          /\ m.total_allowed_break_minutes = a
          /\ m.exceeding_break_minutes = Max(0, d - a)
          /\ m.incidents = IF d > a THEN 1 ELSE 0
          /\ Len(scores) = 1
          /\ IF d <= a THEN scores[1] = <<100, 1>>
             ELSE scores[1][1] * d = 100 * a * scores[1][2]
          /\ ShiftsOf(r) = <<>> =>
               m.adherence = IF d <= a THEN 1000 ELSE RoundHalfEven(1000 * a, d)

(* Scenario A: the agent's one lunch lasted 35 minutes against 30 allowed *)
C10_Witness ==
  \E r \in Requests :
    LET breaks == SelectSeq(BreaksOf(r), LAMBDA b : b.break_type \notin ATTENDANCE)
        m == MetricsOf(r)
    IN  /\ Len(breaks) = 1
        /\ breaks[1].break_type = "lunch"
        /\ breaks[1].duration_minutes = Some(35)
        /\ ShiftsOf(r) = <<>>
        /\ m.total_break_minutes = 35
        /\ m.total_allowed_break_minutes = 30
        /\ m.exceeding_break_minutes = 5
        /\ m.incidents = 1
        /\ m.adherence = 857

----------------------------------------------------------------------------
(* Properties of calculate_agent_metrics under SpecPunch *)

(* The instants of a shift *)
ShiftStart(s) == combine(s.start_date, s.start_time)

ShiftEnd(s) == combine(s.end_date, s.end_time)

(* C7: for a request whose range holds one shift, the agent's one punch-in,
   made on the date the shift starts, the agent's one punch-out, made on the
   date the shift ends, and no scored break, the adherence is the mean of the
   score of the punch-in against the shift start and the score of the
   punch-out against the shift end, also when the shift ends on the next
   date: no punch that occurred is scored as missing. *)
C7_PunchInstants ==
  \A r \in Requests :
    LET shifts == ShiftsOf(r)
        ins == CompletedOf(BreaksOf(r), {"punch_in"})
        outs == CompletedOf(BreaksOf(r), {"punch_out"})
    IN  ( /\ Len(shifts) = 1
          /\ Len(ins) = 1
          /\ Len(outs) = 1
          /\ date(ins[1].start_time) = shifts[1].start_date
          /\ date(outs[1].start_time) = shifts[1].end_date
          /\ CompletedOf(BreaksOf(r), RegularTypes) = <<>> ) =>
          MetricsOf(r).adherence =
            MeanTenths(PunchScore(Abs(ins[1].start_time - ShiftStart(shifts[1]))),
                       PunchScore(Abs(outs[1].start_time - ShiftEnd(shifts[1]))))

(* C8, as the specification states it: the scores that enter the adherence
   are one per completed regular break with a positive allowed duration and
   two, a punch-in and a punch-out score, for every shift in range. *)
C8_ScoresPerShift ==
  \A r \in Requests :
    Len(adherence_scores(BreaksOf(r), ShiftsOf(r))) =
      Len(CompletedOf(BreaksOf(r), RegularTypes)) + 2 * Len(ShiftsOf(r))

(* C8: the adherence is the arithmetic mean, rounded to one decimal, of one
   score per completed regular break with a positive allowed duration and of
   one punch-in and one punch-out score for every date on which a shift of
   the range starts; with no scores it is 100. *)
C8_AdherenceMean ==
  \A r \in Requests :
    LET scores == adherence_scores(BreaksOf(r), ShiftsOf(r))
        days == {ShiftsOf(r)[i].start_date : i \in 1..Len(ShiftsOf(r))}
        total == RatSum(scores)
    IN  /\ Len(scores) =
             Len(CompletedOf(BreaksOf(r), RegularTypes)) + 2 * Cardinality(days)
        /\ MetricsOf(r).adherence =
             IF Len(scores) = 0 THEN 1000
             ELSE RoundHalfEven(10 * total[1], total[2] * Len(scores))

(* A range with a scored break and two shifts that start on the same date *)
C8_Witness ==
  \E r \in Requests :
    /\ Len(ShiftsOf(r)) = 2
    /\ ShiftsOf(r)[1].start_date = ShiftsOf(r)[2].start_date
    /\ Len(CompletedOf(BreaksOf(r), RegularTypes)) = 1
    /\ Len(adherence_scores(BreaksOf(r), ShiftsOf(r))) = 3

(* C9: the score of a punch diff minutes away from its scheduled instant is
   100 when diff <= 5 and max(0, (30 - diff) / 30 * 100) otherwise.  Stated
   on the result: when the range holds one shift and no scored break, and the
   agent's punches, at most one of each kind, were all made on the date the
   shift starts, the adherence is the mean of the two scores, a missing punch
   scoring 0. *)
C9_PunchScore ==
  \A r \in Requests :
    LET shifts == ShiftsOf(r)
        ins == CompletedOf(BreaksOf(r), {"punch_in"})
        outs == CompletedOf(BreaksOf(r), {"punch_out"})
    IN  ( /\ Len(shifts) = 1
          /\ Len(ins) <= 1
          /\ Len(outs) <= 1
          /\ \A i \in 1..Len(break_records) :
                break_records[i].break_type \in ATTENDANCE =>
                  date(break_records[i].start_time) = shifts[1].start_date
          /\ CompletedOf(BreaksOf(r), RegularTypes) = <<>> ) =>
          MetricsOf(r).adherence =
            MeanTenths(IF ins = <<>> THEN <<0, 1>>
                       ELSE PunchScore(Abs(ins[1].start_time - ShiftStart(shifts[1]))),
                       IF outs = <<>> THEN <<0, 1>>
                       ELSE PunchScore(Abs(outs[1].start_time - ShiftEnd(shifts[1]))))

(* A punch-out 20 minutes after the shift ends scores 33.3 and the missing
   punch-in 0: the adherence is 16.7 *)
C9_Witness ==
  \E r \in Requests :
    LET shifts == ShiftsOf(r)
        ins == CompletedOf(BreaksOf(r), {"punch_in"})
        outs == CompletedOf(BreaksOf(r), {"punch_out"})
    IN  /\ Len(shifts) = 1
        /\ Len(BreaksOf(r)) = 1
        /\ Len(outs) = 1
        /\ outs[1].start_time - ShiftEnd(shifts[1]) = 20 * 60
        /\ MetricsOf(r).adherence = 167

----------------------------------------------------------------------------
(* Properties of the stored records and of calculate_agent_metrics under SpecDesk *)

(* The number of records of a list that have a type *)
CountOfType(breaks, t) == Len(SelectSeq(breaks, LAMBDA b : b.break_type = t))

(* C11: a record without end_time adds nothing to total_break_minutes,
   total_allowed_break_minutes, overtime_minutes, the compensation minutes
   and the adherence scores (the result is the one of the same records
   without it), it is counted in total_breaks and in break_counts, and while
   it is stored without end_time its is_overdue is False. *)
C11_ActiveRecords ==
  /\ \A i \in 1..Len(break_records) :
        break_records[i].end_time = None => break_records[i].is_overdue = FALSE
  /\ \A r \in Requests :
        \A i \in 1..Len(BreaksOf(r)) :
          LET breaks == BreaksOf(r)
              rest == Without(breaks, i)
              with == metrics_of(breaks, ShiftsOf(r))
              without == metrics_of(rest, ShiftsOf(r))
              t == breaks[i].break_type
          IN  breaks[i].end_time = None =>
                /\ with.total_break_minutes = without.total_break_minutes
                /\ with.total_allowed_break_minutes = without.total_allowed_break_minutes
                /\ with.overtime_minutes = without.overtime_minutes
                /\ compensation_minutes(breaks) = compensation_minutes(rest)
                /\ adherence_scores(breaks, ShiftsOf(r)) = adherence_scores(rest, ShiftsOf(r))
                /\ with.total_breaks = without.total_breaks + 1
                /\ t \in DOMAIN with.break_counts
                /\ with.break_counts[t] = CountOfType(rest, t) + 1

(* A range with a completed lunch and an active lunch: only the first counts
   in the minutes, both count in total_breaks *)
C11_Witness ==
  \E r \in Requests :
    /\ Len(BreaksOf(r)) = 2
    /\ BreaksOf(r)[1].break_type = "lunch" /\ BreaksOf(r)[1].end_time # None
    /\ BreaksOf(r)[2].break_type = "lunch" /\ BreaksOf(r)[2].end_time = None
    /\ MetricsOf(r).total_break_minutes = 40
    /\ MetricsOf(r).total_allowed_break_minutes = 30
    /\ MetricsOf(r).total_breaks = 2
    /\ MetricsOf(r).break_counts["lunch"] = 2

(* C19: every stored punch_in or punch_out record has end_time = start_time,
   duration_minutes = 0 and is_overdue = False, and every stored record with
   an end_time has end_time >= start_time. *)
C19_AttendanceRecords ==
  \A i \in 1..Len(break_records) :
    LET b == break_records[i]
    IN  /\ b.break_type \in ATTENDANCE =>
             /\ b.end_time = Some(b.start_time)
             /\ b.duration_minutes = Some(0)
             /\ b.is_overdue = FALSE
        /\ b.end_time # None => b.end_time[1] >= b.start_time

(* C20: every completed record has is_overdue = (its type is neither a punch
   nor a working-time break, and its duration_minutes exceeds the allowed
   duration of its type); no working-time break is stored as overdue. *)
C20_StoredOverdueFlag ==
  \A i \in 1..Len(break_records) :
    LET b == break_records[i]
    IN  /\ b.end_time # None =>
             b.is_overdue =
               ( /\ b.break_type \notin (ATTENDANCE \cup WORKING_TIME_BREAKS)
                 /\ b.duration_minutes[1] > BREAK_DURATIONS[b.break_type] )
        /\ b.break_type \in WORKING_TIME_BREAKS => b.is_overdue = FALSE

(* A coaching session closed after 35 minutes (30 allowed) is stored as not
   overdue *)
C20_Witness ==
  \E i \in 1..Len(break_records) :
    /\ break_records[i].break_type = "coaching_aya"
    /\ break_records[i].duration_minutes = Some(35)
    /\ break_records[i].is_overdue = FALSE

----------------------------------------------------------------------------
(* Properties of the stored shifts under SpecSched *)

(* C18: every stored shift has its end instant (end_date + end_time)
   strictly after its start instant (start_date + start_time). *)
C18_ShiftEndsAfterStart ==
  \A i \in 1..Len(shift_records) :
    combine(shift_records[i].end_date, shift_records[i].end_time)
      > combine(shift_records[i].start_date, shift_records[i].start_time)

----------------------------------------------------------------------------
(* Properties of get_breaks under SpecNights *)

(* The night shift of an agent that starts at 22:00 of day d and ends at
   06:00 of the next day *)
NightShift(agent_id, d) == Shift(agent_id, d, HM(22, 0), d + 1, HM(6, 0))

(* The shifts of an agent, in the table's order *)
StoredShifts(agent_id) == shifts_by_agent(shift_records, agent_id)

(* The rearrangements of a list *)
Rearranged(s) ==
  { [i \in 1..Len(s) |-> s[f[i]]] :
      f \in {g \in [1..Len(s) -> 1..Len(s)] : \A i, j \in 1..Len(s) : g[i] = g[j] => i = j} }

(* C12: when the agent's shifts are the night shift of day 1 (22:00 to 06:00
   of day 2) and, possibly, shifts that start on day 2, a break that starts
   at 01:00 of day 2 is associated with the shift of day 1, with or without
   a punch-in before it, and get_breaks reports it under shift_date = day 1
   for every range that holds day 1. *)
C12_OvernightGrouping ==
  \A i \in 1..Len(break_records) :
    LET br == break_records[i]
        shifts == StoredShifts(br.agent_id)
    IN  ( /\ br.break_type \notin ATTENDANCE
          /\ br.start_time = combine(2, HM(1, 0))
          /\ \E k \in 1..Len(shifts) : shifts[k] = NightShift(br.agent_id, 1)
          /\ \A k \in 1..Len(shifts) :
                shifts[k] = NightShift(br.agent_id, 1) \/ shifts[k].start_date = 2 ) =>
          /\ find_shift_for_break(br, shifts) = Some(NightShift(br.agent_id, 1))
          /\ \A start_date \in RangeDates, end_date \in RangeDates :
                (start_date <= 1 /\ 1 <= end_date) =>
                  \E k \in 1..Len(get_breaks(start_date, end_date, None, None).breaks) :
                    LET entry == get_breaks(start_date, end_date, None, None).breaks[k]
                    IN  entry.break = br /\ entry.shift_date = 1

(* C13: the shift find_shift_for_break returns for a break does not depend
   on the order in which the agent's shifts are stored: every rearrangement
   of the list of shifts gives the same shift. *)
C13_OrderIndependent ==
  \A i \in 1..Len(break_records) :
    break_records[i].break_type \notin ATTENDANCE =>
      \A shifts \in Rearranged(StoredShifts(break_records[i].agent_id)) :
        find_shift_for_break(break_records[i], shifts)
          = find_shift_for_break(break_records[i], StoredShifts(break_records[i].agent_id))

(* C14: for a range start..end, start <= end, calculate_agent_metrics reads
   the agent's records whose start date lies in start - 1 .. end + 1 and the
   agent's shifts that start in start..end. *)
C14_ExtendedWindow ==
  \A r \in Requests :
    r[2] <= r[3] =>
      /\ BreaksOf(r) =
           SelectSeq(break_records,
                     LAMBDA b : /\ b.agent_id = r[1]
                                /\ date(b.start_time) >= r[2] - 1
                                /\ date(b.start_time) <= r[3] + 1)
      /\ ShiftsOf(r) =
           SelectSeq(shift_records,
                     LAMBDA sh : /\ sh.agent_id = r[1]
                                 /\ sh.start_date >= r[2]
                                 /\ sh.start_date <= r[3])

----------------------------------------------------------------------------
(* Properties of the report routes under SpecReport *)

(* The date arguments that parse *)
ValidDates == {Some(d) : d \in Dates}

(* C15: computing the metrics changes no stored record and no stored shift,
   and computing them again on the same data gives the same result: a step
   that answers a report leaves both tables as they were, and its answer is
   the one the request yields on these tables, so that the same request
   repeated is answered the same. *)
C15_Idempotent ==
  [][response' # response =>
       /\ break_records' = break_records
       /\ shift_records' = shift_records
       /\ (response'[1].status = 200 /\ response'[1].route = "metrics") =>
            response'[1] =
              metrics_response(response'[1].date_range.start,
                               response'[1].date_range.end, {})
       /\ (response'[1].status = 200 /\ response'[1].route = "export") =>
            response'[1] =
              export_response(response'[1].period.start,
                              response'[1].period.end, {})]_vars

(* C15 happens: a metrics report was answered for two agents, one with an
   overdue lunch and a shift, while records and shifts are stored *)
C15_Witness ==
  /\ response # None
  /\ response[1].route = "metrics"
  /\ response[1].status = 200
  /\ response[1].totals.incidents = 1
  /\ response[1].totals.agent_count = 1
  /\ \E i \in 1..Len(break_records) : break_records[i].is_overdue
  /\ shift_records # <<>>

(* C16: when the computation of one agent's metrics raises, the report
   routes still answer with the results of the other agents. *)
C16_FailureIsolation ==
  [][\A sd \in ValidDates, ed \in ValidDates, f \in Failures :
       (f # {} /\ \E i \in 1..Len(ReportAgents) : ReportAgents[i] \notin f) =>
         /\ get_metrics(sd, ed, f) =>
              /\ response'[1].status = 200
              /\ \A i \in 1..Len(ReportAgents) :
                   ReportAgents[i] \notin f =>
                     \E j \in 1..Len(response'[1].agents) :
                       /\ response'[1].agents[j].agent_id = ReportAgents[i]
                       /\ response'[1].agents[j].metrics =
                            calculate_agent_metrics(ReportAgents[i], sd[1], ed[1])
         /\ export_report(sd, ed, f) =>
              /\ response'[1].status = 200
              /\ \A i \in 1..Len(ReportAgents) :
                   ReportAgents[i] \notin f =>
                     \E j \in 1..Len(response'[1].rows) :
                       response'[1].rows[j].agent_id = ReportAgents[i]]_vars

(* C17: a report request whose end date is before its start date, or whose
   dates do not parse, is answered with a validation error (status 400). *)
C17_RangeValidated ==
  [][\A sd \in DateStrings, ed \in DateStrings :
       (sd = None \/ ed = None \/ ed[1] < sd[1]) =>
         /\ get_metrics(sd, ed, {}) => response'[1].status = 400
         /\ export_report(sd, ed, {}) => response'[1].status = 400]_vars

----------------------------------------------------------------------------
(* Properties of the requests in flight under SpecRace *)

(* The active breaks of an agent: the records without an end that are no punch *)
ActiveBreaks(agent_id) ==
  {i \in 1..Len(break_records) :
     /\ break_records[i].agent_id = agent_id
     /\ break_records[i].break_type \notin ATTENDANCE
     /\ break_records[i].end_time = None}

(* C21: in every reachable state, whatever the interleaving of the requests
   to start a break and of the records entered by hand, an agent has at most
   one break record without an end that is no punch. *)
C21_OneActiveBreak ==
  \A a \in Agents : Cardinality(ActiveBreaks(a)) <= 1

(* C25: whatever the interleaving of the requests to start_break, two of
   one agent at once included, no agent has two punch_in records, or two
   punch_out records, that start on the same date. *)
C25_NoDuplicatePunch ==
  \A i \in 1..Len(break_records), j \in 1..Len(break_records) :
    (/\ i # j
     /\ break_records[i].agent_id = break_records[j].agent_id
     /\ break_records[i].break_type \in ATTENDANCE
     /\ break_records[i].break_type = break_records[j].break_type) =>
      date(break_records[i].start_time) # date(break_records[j].start_time)

----------------------------------------------------------------------------
(* Properties of the batch report under SpecReport *)

(* The fields of the totals that are sums of counts *)
SummedFields ==
  { "total_scheduled_hours", "total_break_minutes", "exceeding_break_minutes",
    "incidents", "emergency_count", "overtime_count", "overtime_minutes",
    "total_breaks" }

(* The sum of a field over the rows of an answer, all of them or those of the
   agents with a shift *)
FieldSum(rows, field, with_shift_only) ==
  SumSeq([i \in 1..Len(rows) |->
            IF with_shift_only /\ rows[i].metrics.shifts_count = 0
            THEN 0
            ELSE rows[i].metrics[field]])

(* avg is the mean of the field over the n agents with a shift, to the
   nearest tenth, and 0 when n = 0 *)
IsMean(avg, rows, field, n) ==
  IF n = 0 THEN avg = 0
  ELSE 2 * Abs(avg * n - FieldSum(rows, field, TRUE)) <= n

(* C22: an answer of get_metrics has one result per agent; each total is the
   sum of its field over all the agents; avg_utilization, avg_adherence and
   avg_conformance are the means, to one decimal, of the values of exactly
   the agents with shifts_count > 0, and 0 when no agent has a shift. *)
C22_BatchAggregates ==
  (response # None /\ response[1].route = "metrics" /\ response[1].status = 200) =>
    LET rows == response[1].agents
        totals == response[1].totals
        n == Cardinality({i \in 1..Len(rows) : rows[i].metrics.shifts_count > 0})
    IN  /\ Len(rows) = Len(ReportAgents)
        /\ \A i \in 1..Len(rows) : rows[i].agent_id = ReportAgents[i]
        /\ \A f \in SummedFields : totals[f] = FieldSum(rows, f, FALSE)
        /\ totals.agent_count = n
        /\ IsMean(totals.avg_utilization, rows, "utilization", n)
        /\ IsMean(totals.avg_adherence, rows, "adherence", n)
        /\ IsMean(totals.avg_conformance, rows, "conformance", n)

(* C22 happens: an answer for two agents of whom one has a shift and an
   overdue lunch and the other has records and no shift *)
C22_Witness ==
  /\ response # None
  /\ response[1].route = "metrics"
  /\ response[1].status = 200
  /\ response[1].totals.agent_count = 1
  /\ response[1].totals.avg_adherence > 0
  /\ response[1].totals.incidents = 1
  /\ \A i \in 1..Len(response[1].agents) :
       response[1].agents[i].metrics.total_breaks > 0

----------------------------------------------------------------------------
(* Properties of the attendance gates under SpecAttendance *)

(* The records of a type of an agent *)
RecordsOf(agent_id, break_type) ==
  {i \in 1..Len(break_records) :
     /\ break_records[i].agent_id = agent_id
     /\ break_records[i].break_type = break_type}

(* The agent has a punch_in dated today or in the 24 hours before now, and
   no punch_out after that punch_in and up to now *)
PunchedIn(agent_id) ==
  \E i \in RecordsOf(agent_id, "punch_in") :
    /\ \/ date(break_records[i].start_time) = date(now)
       \/ /\ break_records[i].start_time >= now - 24 * Hour
          /\ break_records[i].start_time <= now
    /\ \A j \in RecordsOf(agent_id, "punch_out") :
         ~ /\ break_records[j].start_time > break_records[i].start_time
           /\ break_records[j].start_time <= now

(* C23: start_break adds a break record that is no punch only if the agent
   has a punch_in dated today or within the preceding 24 hours and has not
   punched out after that punch_in. *)
C23_AttendanceGate ==
  [][\A a \in Agents :
       (start_break(a, "lunch", TRUE) /\ break_records' # break_records) =>
         PunchedIn(a)]_vars

(* The agent has a punch_in, and no punch_out that starts later than the
   most recent punch_in *)
MayPunchOut(agent_id) ==
  /\ RecordsOf(agent_id, "punch_in") # {}
  /\ \A j \in RecordsOf(agent_id, "punch_out") :
       \E i \in RecordsOf(agent_id, "punch_in") :
         break_records[j].start_time <= break_records[i].start_time

(* C24: start_break adds a punch_out record only if the agent has a punch_in
   and no punch_out that starts later than the most recent punch_in; a
   request in any other state leaves the records as they are. *)
C24_PunchOutGate ==
  [][\A a \in Agents :
       (start_break(a, "punch_out", TRUE) /\ ~ MayPunchOut(a)) =>
         break_records' = break_records]_vars

(* C24 happens: the agent punched in and later punched out through
   start_break, at instants of the server's clock *)
C24_Witness ==
  \E i \in 1..Len(break_records), j \in 1..Len(break_records) :
    /\ break_records[i].break_type = "punch_in"
    /\ break_records[j].break_type = "punch_out"
    /\ break_records[i].start_time \in AttendanceInstants \cup {AttendanceClock}
    /\ break_records[j].start_time \in AttendanceInstants
    /\ break_records[j].start_time > break_records[i].start_time
    /\ now > break_records[j].start_time
    /\ ~ MayPunchOut(break_records[i].agent_id)

(* C27: whenever the most recent attendance record of an agent is a punch_in
   of the past, with every punch_out before it, and the agent is on no
   break, a request to punch out with a screenshot is accepted. *)
C27_PunchOutAvailable ==
  \A a \in Agents :
    (/\ RecordsOf(a, "punch_in") # {}
     /\ \A i \in RecordsOf(a, "punch_in") \cup RecordsOf(a, "punch_out") :
          break_records[i].start_time <= now
     /\ \A j \in RecordsOf(a, "punch_out") :
          \E i \in RecordsOf(a, "punch_in") :
            break_records[j].start_time < break_records[i].start_time
     /\ active_break(a) = <<>>) =>
      start_break_accepted(a, "punch_out", TRUE)

----------------------------------------------------------------------------
(* Properties of end_break under SpecFloor *)

(* The whole minutes of a number of seconds, as int() of Python takes them *)
WholeMinutes(seconds) ==
  IF seconds >= 0 THEN seconds \div 60 ELSE - ((- seconds) \div 60)

(* The record as end_break leaves it when it closes it at the instant at *)
Closed(b, at) ==
  [b EXCEPT !.end_time = Some(at),
            !.duration_minutes = Some(WholeMinutes(at - b.start_time)),
            !.is_overdue = /\ b.break_type \notin WORKING_TIME_BREAKS
                           /\ WholeMinutes(at - b.start_time) > BREAK_DURATIONS[b.break_type]]

(* C26: a request to end_break (with its screenshot) of an agent without an
   active break changes no record; of an agent with one, it closes exactly
   one active break of that agent - end_time is now, duration_minutes the
   whole minutes elapsed, is_overdue the flag of its type and duration - and
   leaves every other record, those of other agents included, as it was.
   No step changes a stored record in any other way. *)
C26_EndBreak ==
  [][/\ \A k \in 1..Len(ReportAgents) :
          end_break(ReportAgents[k], TRUE) =>
            IF ActiveBreaks(ReportAgents[k]) = {}
            THEN break_records' = break_records
            ELSE /\ Len(break_records') = Len(break_records)
                 /\ \E i \in ActiveBreaks(ReportAgents[k]) :
                      /\ break_records'[i] = Closed(break_records[i], now)
                      /\ \A j \in 1..Len(break_records) :
                           j # i => break_records'[j] = break_records[j]
     /\ \A j \in 1..Len(break_records) :
          (j <= Len(break_records') /\ break_records'[j] # break_records[j]) =>
            /\ j \in ActiveBreaks(break_records[j].agent_id)
            /\ break_records'[j] = Closed(break_records[j], now)]_vars

(* C26 happens: an agent's break was closed as overdue, with a duration that
   was cut to whole minutes, while the other agent's break is still active *)
C26_Witness ==
  \E i \in 1..Len(break_records), j \in 1..Len(break_records) :
    /\ break_records[i].agent_id # break_records[j].agent_id
    /\ break_records[i].end_time = Some(combine(1, HM(12, 20) + 30))
    /\ break_records[i].duration_minutes = Some(25)
    /\ break_records[j].end_time = None
    /\ j < i

----------------------------------------------------------------------------
(* Properties of the attendance lists of GET /api/breaks under SpecAttendance *)

(* How often a record is shown in a list of attendance entries *)
TimesShown(entries, id) ==
  Cardinality({k \in 1..Len(entries) : entries[k].punch_in = Some(id)})
  + Cardinality({k \in 1..Len(entries) : entries[k].punch_out = Some(id)})

(* C28: every punch that passes the filter of dates and shifts is shown in
   exactly one entry of its agent's attendance list - as the punch_in of a
   pair, the punch_out of a pair or a standalone punch_out - whatever the
   sequence of the agent's punches. *)
C28_PairingComplete ==
  \A sd \in Dates, ed \in Dates, a \in Agents :
    sd <= ed =>
      LET records == agent_attendance(sd, ed, None, None, a)
          entries == get_breaks_attendance(sd, ed, None, None, a)
      IN  \A k \in 1..Len(records) : TimesShown(entries, records[k]) = 1

----------------------------------------------------------------------------
(* Properties of find_shift_for_break under SpecNights *)

(* C29: a shift that find_shift_for_break returns for a break has started
   when the break starts: its start instant (start_date and start_time) is at
   or before the start of the break, whether a punch-in anchors the search
   or not. *)
C29_ShiftHasStarted ==
  \A i \in 1..Len(break_records) :
    LET br == break_records[i]
        found == find_shift_for_break(br, StoredShifts(br.agent_id))
    IN  (br.break_type \notin ATTENDANCE /\ found # None) =>
          ShiftStart(found[1]) <= br.start_time

----------------------------------------------------------------------------
(* Incidents and excess under Spec *)

(* C30: with the records that start_break, end_break and create_manual_break
   store, a result of calculate_agent_metrics with incidents = 0 has
   exceeding_break_minutes = 0: an excess of the total comes with at least
   one incident. *)
C30_ExcessHasIncident ==
  \A r \in Requests :
    MetricsOf(r).incidents = 0 => MetricsOf(r).exceeding_break_minutes = 0

(* C30 happens: a result without incident over two completed breaks that
   took time and stayed below their allowance *)
C30_Witness ==
  \E r \in Requests :
    /\ MetricsOf(r).incidents = 0
    /\ MetricsOf(r).completed_breaks = 2
    /\ MetricsOf(r).total_break_minutes > 0
    /\ MetricsOf(r).total_break_minutes < MetricsOf(r).total_allowed_break_minutes

====
